---- MODULE Spec2Model ----
(***************************************************************************)
(* Cross-product control mapping (mapping.py, model.py, db_config.py) and  *)
(* the authenticated client (api_client.py).                               *)
(*                                                                         *)
(* Confidences and thresholds are written in hundredths: 0.85 is 85.       *)
(* The adapter's answer is read by exactly one loop, in order              *)
(* (mapping.py:36); the model draws each entry of the answer when the loop *)
(* reaches it, and keeps only how many entries are left.  An answer that   *)
(* json.loads or float() rejects as a whole is the "malformed" outcome of  *)
(* the call.                                                               *)
(***************************************************************************)
EXTENDS Integers, Sequences, FiniteSets, Bags, TLC

\* ---------------------------------------------------------------- bounds
MaxLen == 3        \* longest product list handed to map_all_products
MaxCands == 2      \* most entries in one answer of the matching backend
MaxRuns == 2       \* map_all_products runs started
MaxTicks == 3      \* advances of the clock

\* ------------------------------------------------------------ value sets
Products == {"A", "B", "C"}
ControlIds == {"k1", "k2"}
BadId == "not-a-uuid"
RawIds == ControlIds \cup {BadId}
Absent == "absent"
NoRow == "norow"
Confs == {0, 85, 150}
Thresholds == {80, 85}
Tasks == {"r1", "r2"}
MainTask == "r1"

\* text and metadata arguments of insert_control; "None" is the default of
\* the metadata parameter, "{}" the empty dict
Texts == {"text1", "text2"}
Metadatas == {"None", "{}", "m1"}
NoTextRow == [text |-> "norow", metadata |-> "norow"]
NoInsert ==
  [id |-> "none", product_id |-> "none", text |-> "none", metadata |-> "none",
   owner_before |-> NoRow, before |-> NoTextRow]

\* app.state.product_ids once lifespan has registered the premium products
RegisteredIds == <<"A", "B", "C">>

\* the questionnaires of the external catalog: product -> its control ids
Catalog == [p \in Products |-> IF p = "A" THEN {"k1"} ELSE IF p = "B" THEN {"k2"} ELSE {}]

\* an entry of the parsed answer: either identity may be missing, and the
\* confidence is an optional field (<<>> when the key is not there)
RawEntries ==
  [source_id : RawIds \cup {Absent}, target_id : RawIds \cup {Absent},
   confidence : {<<>>} \cup {<<c>> : c \in Confs}]

\* an entry of an answer handed to the adapter on its own: floatable says
\* whether float() accepts the confidence that is there
AnswerEntries ==
  {e \in [source_id : {"k1", Absent}, target_id : {"k2", Absent},
          confidence : {<<>>} \cup {<<c>> : c \in Confs}, floatable : BOOLEAN] :
     e.confidence = <<>> => e.floatable}

\* the well-formed lists json.loads can return
Answers == UNION {[1..n -> AnswerEntries] : n \in 0..MaxCands}

NoCand == [s |-> Absent, t |-> Absent, c |-> 0]

NoLast == [done |-> FALSE, ids |-> <<>>, thr |-> 80, acc |-> {}]

\* --------------------------------------------------- api_client.py values
Callers == {"c1", "c2"}
NoToken == [parts |-> 0, kind |-> "none", exp |-> <<>>]

\* a token: how many dot-separated parts it has, and what its second part
\* decodes to: "junk" (not base64 of JSON, or JSON that is no object) or an
\* "object" whose exp field is absent (<<>>) or a number
ExpValues == {0, 5000}
Tokens ==
  {[parts |-> 1, kind |-> "junk", exp |-> <<>>]}
  \cup [parts : {2, 3}, kind : {"object"}, exp : {<<>>} \cup {<<e>> : e \in ExpValues}]
  \cup [parts : {3}, kind : {"junk"}, exp : {<<>>}]

\* the body of a login response: each field is optional
LoginData ==
  [status : {"ok"},
   token : {<<>>} \cup {<<t>> : t \in Tokens},
   access_token : {<<>>, <<[parts |-> 1, kind |-> "junk", exp |-> <<>>]>>},
   expires_in : {<<>>, <<120>>, <<7200>>}]

NoResp == [status |-> "none", token |-> <<>>, access_token |-> <<>>, expires_in |-> <<>>]

\* a response that raise_for_status() rejects
HttpError == [status |-> "error", token |-> <<>>, access_token |-> <<>>, expires_in |-> <<>>]

TickSteps == {60, 3540}

VARIABLES
  phase,      \* "ingest" (lifespan loads the questionnaires) or "serving"
  controls,   \* controls table: control id -> owning product, or NoRow
  mappings,   \* mappings table: bag of rows [s, t, c]
  pc,         \* per task: position inside map_all_products
  ids,        \* per task: product_ids argument
  thr,        \* per task: threshold argument
  i, j,       \* per task: loop indices of map_all_products (1-based)
  remaining,  \* per task: entries of the current answer not yet iterated
  cur,        \* per task: candidate the insert loop is working on
  outcome,    \* per task: what the last step of the task met
  calls,      \* per task: matching-backend calls issued in this run
  invoked,    \* per task: map_two_products invocations of this run (index pairs)
  changed,    \* per task: this run, while a faithful re-run (same), added a row
  same,       \* per task: a re-run of the recorded run that has accepted only candidates accepted there
  track,      \* per task: this run is recorded, to compare a re-run with it
  acc,        \* per task: candidates accepted in this recorded run whose identities parse
  last,       \* arguments and accepted candidates of the recorded run
  writeFailed,\* some storage write has failed so far
  runs,       \* runs started so far
  token,        \* APIClient.token
  token_expiry, \* APIClient.token_expiry (epoch seconds)
  now,          \* time.time()
  ticks,        \* how often the clock has advanced
  apc,          \* per caller: position inside get_headers
  need,         \* per caller: why this call logs in ("no": it does not)
  logins,       \* per caller: login requests sent by this call
  resp,         \* per caller: the login response this call received
  hdr,          \* per caller: token of the Authorization header returned
  adapter,      \* position of the adapter call that is looked at on its own
  llm_answer,   \* model.py: mappings, the list json.loads returned
  db_mappings,  \* model.py: what map_product_controls_with_llm returned
  control_text, \* controls table: control id -> its text and metadata, or NoTextRow
  last_insert   \* the insert_control call that returned last during ingestion

mapVars == <<phase, controls, mappings, pc, ids, thr, i, j, remaining,
             cur, outcome, calls, invoked, changed, same, track, acc, last,
             writeFailed, runs>>

authVars == <<token, token_expiry, now, ticks, apc, need, logins, resp, hdr>>

adapterVars == <<adapter, llm_answer, db_mappings>>

ctlVars == <<control_text, last_insert>>

vars == <<mapVars, authVars, adapterVars, ctlVars>>

\* ------------------------------------------------------------ db_config.py

HasRow(rows, s, t) == \E x \in BagToSet(rows) : x.s = s /\ x.t = t

Row(s, t, c) == [s |-> s, t |-> t, c |-> c]

\* INSERT ... ON CONFLICT (...) DO UPDATE SET confidence = EXCLUDED.confidence
InsertMappingUpdate(rows, s, t, c) ==
  SetToBag({x \in BagToSet(rows) : ~(x.s = s /\ x.t = t)} \cup {Row(s, t, c)})

\* INSERT without the ON CONFLICT clause
InsertMappingPlain(rows, s, t, c) == rows (+) SetToBag({Row(s, t, c)})

\* INSERT ... ON CONFLICT (source_control_id, target_control_id) DO NOTHING
InsertMapping(rows, s, t, c) ==
  IF HasRow(rows, s, t) THEN rows ELSE rows (+) SetToBag({Row(s, t, c)})

\* REFERENCES controls(id) on both columns of mappings
ForeignKeysHold(ctrls, s, t) == ctrls[s] # NoRow /\ ctrls[t] # NoRow

\* SELECT ... FROM controls WHERE product_id = %s
GetControls(ctrls, p) == {k \in ControlIds : ctrls[k] = p}

\* INSERT ... ON CONFLICT (id) DO UPDATE SET text, metadata: the owner stays
InsertControl(k, p) ==
  /\ phase = "ingest"
  /\ k \in Catalog[p]
  /\ controls' = IF controls[k] = NoRow THEN [controls EXCEPT ![k] = p] ELSE controls
  /\ control_text' = [control_text EXCEPT ![k] = [text |-> "text1", metadata |-> "{}"]]
  /\ last_insert' = [id |-> k, product_id |-> p, text |-> "text1", metadata |-> "{}",
                     owner_before |-> controls[k], before |-> control_text[k]]
  /\ UNCHANGED <<phase, mappings, pc, ids, thr, i, j, remaining, cur, outcome, calls,
                 invoked, changed, same, track, acc, last, writeFailed, runs>>
  /\ UNCHANGED <<authVars, adapterVars>>

\* lifespan: the questionnaires are loaded before any mapping run
EndIngest ==
  /\ phase = "ingest"
  /\ phase' = "serving"
  /\ last_insert' = NoInsert
  /\ UNCHANGED control_text
  /\ UNCHANGED <<controls, mappings, pc, ids, thr, i, j, remaining, cur, outcome, calls,
                 invoked, changed, same, track, acc, last, writeFailed, runs>>
  /\ UNCHANGED <<authVars, adapterVars>>

\* metadata or {}
NormalMetadata(md) == IF md = "None" THEN "{}" ELSE md

\* ON CONFLICT (id) DO UPDATE SET product_id = EXCLUDED.product_id as well
UpsertOwnerMoved(old, p) == p

\* product_id is not in the SET list of the ON CONFLICT clause
UpsertOwner(old, p) == IF old = NoRow THEN p ELSE old

\* ON CONFLICT (id) DO NOTHING
UpsertTextKept(old, new) == IF old = NoTextRow THEN new ELSE old

\* ON CONFLICT (id) DO UPDATE SET text = EXCLUDED.text, metadata = EXCLUDED.metadata
UpsertText(old, new) == new

\* insert_control(control_id, product_id, text, metadata) with any arguments
InsertControlCall(k, p, text, md) ==
  /\ phase = "ingest"
  /\ controls' = [controls EXCEPT ![k] = UpsertOwner(@, p)]
  /\ control_text' = [control_text EXCEPT ![k] =
                        UpsertText(@, [text |-> text, metadata |-> NormalMetadata(md)])]
  /\ last_insert' = [id |-> k, product_id |-> p, text |-> text, metadata |-> md,
                     owner_before |-> controls[k], before |-> control_text[k]]
  /\ UNCHANGED <<phase, mappings, pc, ids, thr, i, j, remaining, cur, outcome, calls,
                 invoked, changed, same, track, acc, last, writeFailed, runs>>
  /\ UNCHANGED <<authVars, adapterVars>>

\* ---------------------------------------------------------------- model.py

\* the identity test with or in place of and
HasEitherId(e) == e.source_id # Absent \/ e.target_id # Absent

\* if "source_id" in m and "target_id" in m
HasIds(e) == e.source_id # Absent /\ e.target_id # Absent

\* float(m.get("confidence", 0.0))
DbEntry(e) ==
  [s |-> e.source_id, t |-> e.target_id,
   c |-> IF e.confidence = <<>> THEN 0 ELSE e.confidence[1]]

\* db_mappings entries the adapter can hand to the orchestrator; an entry
\* names two different identities
Candidates ==
  {DbEntry(e) : e \in {x \in RawEntries : HasIds(x) /\ x.source_id # x.target_id}}

RECURSIVE ParseFrom(_, _, _)
\* for m in mappings: append the entries with both identities; a float() that
\* raises ends in the except of the parse: return []
ParseFrom(ans, k, out) ==
  IF k > Len(ans) THEN out
  ELSE IF HasIds(ans[k])
       THEN IF ans[k].floatable
            THEN ParseFrom(ans, k + 1, Append(out, DbEntry(ans[k])))
            ELSE <<>>
       ELSE ParseFrom(ans, k + 1, out)

\* db_mappings of a parsed answer
ParseAnswer(ans) == ParseFrom(ans, 1, <<>>)

\* json.loads has returned the list ans
Receive(ans) ==
  /\ adapter = "idle"
  /\ adapter' = "parsing"
  /\ llm_answer' = ans
  /\ UNCHANGED db_mappings
  /\ UNCHANGED <<mapVars, authVars, ctlVars>>

\* the loop over the answer, and the return
Parse ==
  /\ adapter = "parsing"
  /\ adapter' = "returned"
  /\ db_mappings' = ParseAnswer(llm_answer)
  /\ UNCHANGED llm_answer
  /\ UNCHANGED <<mapVars, authVars, ctlVars>>

\* the next call of the adapter
Forget ==
  /\ adapter = "returned"
  /\ adapter' = "idle"
  /\ llm_answer' = <<>>
  /\ db_mappings' = <<>>
  /\ UNCHANGED <<mapVars, authVars, ctlVars>>

\* only the inner try (around json.loads) is there
CaughtByAdapterInner(res) == res = "malformed"

\* the outer try (the call fails) and the inner try (the answer does not parse)
\* both end in "return []"
CaughtByAdapter(res) == res \in {"error", "malformed"}

\* -------------------------------------------------------------- mapping.py

\* the threshold test left out
AcceptsAny(c, t) == TRUE

\* if m["confidence"] > threshold
AcceptsStrict(c, t) == c > t

\* if m["confidence"] >= threshold
Accepts(c, t) == c >= t

\* the reverse write done with the arguments of the forward write
ReverseArgsUnswapped(m) == [s |-> m.s, t |-> m.t, c |-> m.c]

\* insert_mapping(source_id=UUID(m["target_id"]), target_id=UUID(m["source_id"]), ...)
ReverseArgs(m) == [s |-> m.t, t |-> m.s, c |-> m.c]

\* UUID(...) of a candidate's identity
IsUuid(x) == x \in ControlIds

\* except ValueError
CatchesValueError(exc) == exc = "ValueError"

\* except Exception as e: logger.error(...)
Catches(exc) == exc \in {"ValueError", "ForeignKeyViolation", "OperationalError"}

\* if not product_a["controls"] and not product_b["controls"]
NoControlsBoth(a, b) == a = {} /\ b = {}

\* if not product_a["controls"] or not product_b["controls"]
NoControls(a, b) == a = {} \/ b = {}

ProductLists == UNION {[1..n -> Products] : n \in 0..MaxLen}

Idle == \A r \in Tasks : pc[r] = "idle"

\* the loop head of map_all_products at (a, b): next map_two_products or the end
LoopPc(list, a, b) == IF a <= Len(list) /\ b <= Len(list) THEN "fetch" ELSE "done"

\* for j in range(i, n)
NextPairFromI(n, a, b) ==
  IF b < n THEN <<a, b + 1>>
  ELSE IF a + 1 <= n THEN <<a + 1, a + 1>>
  ELSE <<n + 1, n + 1>>

\* for i in range(n): for j in range(i + 1, n): the index pair after (a, b),
\* 1-based; <<n + 1, n + 1>> once both loops are exhausted
NextPair(n, a, b) ==
  IF b < n THEN <<a, b + 1>>
  ELSE IF a + 1 < n THEN <<a + 1, a + 2>>
  ELSE <<n + 1, n + 1>>

\* the first index pair of the loops
FirstPair(n) == IF n >= 2 THEN <<1, 2>> ELSE <<n + 1, n + 1>>

\* map_all_products(product_ids, threshold) is called (lifespan, remap_product);
\* rec: the run is recorded for the comparison with a re-run
StartRun(r, list, t, rec) ==
  /\ phase = "serving"
  /\ Idle
  /\ runs < MaxRuns
  /\ rec => runs + 1 < MaxRuns
  /\ runs' = runs + 1
  /\ track' = [track EXCEPT ![r] = rec]
  /\ ids' = [ids EXCEPT ![r] = list]
  /\ thr' = [thr EXCEPT ![r] = t]
  /\ i' = [i EXCEPT ![r] = FirstPair(Len(list))[1]]
  /\ j' = [j EXCEPT ![r] = FirstPair(Len(list))[2]]
  /\ pc' = [pc EXCEPT ![r] = LoopPc(list, FirstPair(Len(list))[1], FirstPair(Len(list))[2])]
  /\ calls' = [calls EXCEPT ![r] = <<>>]
  /\ invoked' = [invoked EXCEPT ![r] = <<>>]
  /\ changed' = [changed EXCEPT ![r] = FALSE]
  /\ same' = [same EXCEPT ![r] = last.done /\ list = last.ids /\ t = last.thr]
  /\ last' = IF same'[r] THEN last ELSE NoLast
  /\ acc' = [acc EXCEPT ![r] = {}]
  /\ UNCHANGED <<phase, controls, mappings, remaining, cur, outcome, writeFailed>>
  /\ UNCHANGED <<authVars, adapterVars, ctlVars>>

\* [pid] + [p for p in app.state.product_ids if p != pid]
RemapList(p) == <<p>> \o SelectSeq(RegisteredIds, LAMBDA q : q # p)

\* POST /remap/{product_id}: the handler of request r calls map_all_products
\* with threshold 0.85; other requests may be in progress
Remap(r, p) ==
  /\ phase = "serving"
  /\ pc[r] = "idle"
  /\ runs < MaxRuns
  /\ \E k \in 1..Len(RegisteredIds) : RegisteredIds[k] = p
  /\ runs' = runs + 1
  /\ ids' = [ids EXCEPT ![r] = RemapList(p)]
  /\ thr' = [thr EXCEPT ![r] = 85]
  /\ i' = [i EXCEPT ![r] = FirstPair(Len(RemapList(p)))[1]]
  /\ j' = [j EXCEPT ![r] = FirstPair(Len(RemapList(p)))[2]]
  /\ pc' = [pc EXCEPT ![r] = LoopPc(RemapList(p), FirstPair(Len(RemapList(p)))[1],
                                    FirstPair(Len(RemapList(p)))[2])]
  /\ calls' = [calls EXCEPT ![r] = <<>>]
  /\ invoked' = [invoked EXCEPT ![r] = <<>>]
  /\ UNCHANGED <<phase, controls, mappings, remaining, cur, outcome, changed, same,
                 track, acc, last, writeFailed>>
  /\ UNCHANGED <<authVars, adapterVars, ctlVars>>

\* map_two_products returns to the loop of map_all_products
Advance(r) ==
  LET nx == NextPair(Len(ids[r]), i[r], j[r])
  IN /\ i' = [i EXCEPT ![r] = nx[1]]
     /\ j' = [j EXCEPT ![r] = nx[2]]
     /\ pc' = [pc EXCEPT ![r] = LoopPc(ids[r], nx[1], nx[2])]

\* map_two_products: both get_controls reads, the empty check, the backend call
Fetch(r) ==
  /\ pc[r] = "fetch"
  /\ invoked' = [invoked EXCEPT ![r] = Append(@, <<i[r], j[r]>>)]
  /\ cur' = [cur EXCEPT ![r] = NoCand]
  /\ \E ok \in BOOLEAN :
       IF ~ok
       THEN \* a get_controls read raises: nothing catches it
            /\ pc' = [pc EXCEPT ![r] = "raised"]
            /\ outcome' = [outcome EXCEPT ![r] = "read_error"]
            /\ UNCHANGED <<i, j, calls>>
       ELSE IF NoControls(GetControls(controls, ids[r][i[r]]),
                          GetControls(controls, ids[r][j[r]]))
            THEN \* "No controls to map": return before the backend call
                 /\ Advance(r)
                 /\ outcome' = [outcome EXCEPT ![r] = "skipped"]
                 /\ UNCHANGED calls
            ELSE /\ pc' = [pc EXCEPT ![r] = "llm"]
                 /\ outcome' = [outcome EXCEPT ![r] = "none"]
                 /\ calls' = [calls EXCEPT ![r] = Append(@, <<ids[r][i[r]], ids[r][j[r]]>>)]
                 /\ UNCHANGED <<i, j>>
  /\ UNCHANGED <<phase, controls, mappings, ids, thr, remaining,
                 changed, same, track, acc, last, writeFailed, runs>>
  /\ UNCHANGED <<authVars, adapterVars, ctlVars>>

\* map_product_controls_with_llm returns: [] on a failed call or an answer that
\* does not parse, else the entries of the answer
Backend(r) ==
  /\ pc[r] = "llm"
  /\ \E res \in {"error", "malformed", "list"}, n \in 0..MaxCands :
       IF res # "list"
       THEN /\ n = 0
            /\ outcome' = [outcome EXCEPT ![r] = "no_answer"]
            /\ IF CaughtByAdapter(res)
               THEN \* return []; insert_mappings_to_db([]) returns at once
                    Advance(r)
               ELSE /\ pc' = [pc EXCEPT ![r] = "raised"]
                    /\ UNCHANGED <<i, j>>
            /\ UNCHANGED remaining
       ELSE IF n = 0
       THEN /\ outcome' = [outcome EXCEPT ![r] = "empty"]
            /\ Advance(r)
            /\ UNCHANGED remaining
       ELSE /\ outcome' = [outcome EXCEPT ![r] = "none"]
            /\ remaining' = [remaining EXCEPT ![r] = n]
            /\ pc' = [pc EXCEPT ![r] = "insert"]
            /\ UNCHANGED <<i, j>>
  /\ UNCHANGED <<phase, controls, mappings, ids, thr, cur, calls,
                 invoked, changed, same, track, acc, last, writeFailed, runs>>
  /\ UNCHANGED <<authVars, adapterVars, ctlVars>>

\* the for loop of insert_mappings_to_db moves past the current candidate
LoopOn(r) ==
  /\ remaining' = [remaining EXCEPT ![r] = @ - 1]
  /\ IF remaining[r] = 1 THEN Advance(r)
     ELSE /\ pc' = [pc EXCEPT ![r] = "insert"]
          /\ UNCHANGED <<i, j>>

\* an exception inside the try of insert_mappings_to_db: logged, or it leaves
\* the orchestrator
Raised(r, exc) ==
  IF Catches(exc)
  THEN LoopOn(r)
  ELSE /\ pc' = [pc EXCEPT ![r] = "raised"]
       /\ UNCHANGED <<i, j, remaining>>

\* the identities of a candidate that is not written are not kept
Seen(m) == [s |-> Absent, t |-> Absent, c |-> m.c]

\* one iteration of the for loop of insert_mappings_to_db: the threshold test,
\* UUID(), and the forward insert_mapping
Forward(r) ==
  /\ pc[r] = "insert"
  /\ \E m \in Candidates :
       IF ~Accepts(m.c, thr[r])
       THEN /\ cur' = [cur EXCEPT ![r] = Seen(m)]
            /\ outcome' = [outcome EXCEPT ![r] = "rejected"]
            /\ LoopOn(r)
            /\ UNCHANGED <<mappings, changed, same, acc, last, writeFailed>>
       ELSE IF ~(IsUuid(m.s) /\ IsUuid(m.t))
       THEN \* UUID() raises ValueError inside the try
            /\ cur' = [cur EXCEPT ![r] = Seen(m)]
            /\ outcome' = [outcome EXCEPT ![r] = "uuid_error"]
            /\ Raised(r, "ValueError")
            /\ UNCHANGED <<mappings, changed, same, acc, last, writeFailed>>
       ELSE /\ same' = [same EXCEPT ![r] = @ /\ m \in last.acc]
            /\ last' = IF same'[r] THEN last ELSE NoLast
            /\ acc' = [acc EXCEPT ![r] = IF track[r] THEN @ \cup {m} ELSE @]
            /\ \E ok \in BOOLEAN :
                 IF ~ok \/ ~ForeignKeysHold(controls, m.s, m.t)
                 THEN \* insert_mapping raises
                      /\ cur' = [cur EXCEPT ![r] = Seen(m)]
                      /\ outcome' = [outcome EXCEPT ![r] = "write_error"]
                      /\ writeFailed' = TRUE
                      /\ Raised(r, IF ok THEN "ForeignKeyViolation" ELSE "OperationalError")
                      /\ changed' = [changed EXCEPT ![r] = same'[r] /\ @]
                      /\ UNCHANGED mappings
                 ELSE /\ cur' = [cur EXCEPT ![r] = m]
                      /\ mappings' = InsertMapping(mappings, m.s, m.t, m.c)
                      /\ changed' = [changed EXCEPT ![r] =
                                       same'[r] /\ (@ \/ mappings' # mappings)]
                      /\ outcome' = [outcome EXCEPT ![r] = "forward"]
                      /\ pc' = [pc EXCEPT ![r] = "reverse"]
                      /\ UNCHANGED <<i, j, remaining, writeFailed>>
  /\ UNCHANGED <<phase, controls, ids, thr, calls, invoked, track, runs>>
  /\ UNCHANGED <<authVars, adapterVars, ctlVars>>

\* the reverse insert_mapping of the candidate whose forward row was written
Reverse(r) ==
  /\ pc[r] = "reverse"
  /\ \E ok \in BOOLEAN :
       LET a == ReverseArgs(cur[r]) IN
       IF ~ok \/ ~ForeignKeysHold(controls, a.s, a.t)
       THEN /\ outcome' = [outcome EXCEPT ![r] = "write_error"]
            /\ writeFailed' = TRUE
            /\ Raised(r, IF ok THEN "ForeignKeyViolation" ELSE "OperationalError")
            /\ UNCHANGED <<mappings, changed>>
       ELSE /\ mappings' = InsertMapping(mappings, a.s, a.t, a.c)
            /\ changed' = [changed EXCEPT ![r] = same[r] /\ (@ \/ mappings' # mappings)]
            /\ outcome' = [outcome EXCEPT ![r] = "stored"]
            /\ LoopOn(r)
            /\ UNCHANGED writeFailed
  /\ UNCHANGED <<phase, controls, ids, thr, cur, calls, invoked, same, track, acc, last, runs>>
  /\ UNCHANGED <<authVars, adapterVars, ctlVars>>

\* map_all_products returns, or an exception leaves it
Return(r) ==
  /\ pc[r] \in {"done", "raised"}
  /\ pc' = [pc EXCEPT ![r] = "idle"]
  /\ ids' = [ids EXCEPT ![r] = <<>>]
  /\ thr' = [thr EXCEPT ![r] = 80]
  /\ i' = [i EXCEPT ![r] = 0]
  /\ j' = [j EXCEPT ![r] = 0]
  /\ remaining' = [remaining EXCEPT ![r] = 0]
  /\ cur' = [cur EXCEPT ![r] = NoCand]
  /\ outcome' = [outcome EXCEPT ![r] = "none"]
  /\ calls' = [calls EXCEPT ![r] = <<>>]
  /\ invoked' = [invoked EXCEPT ![r] = <<>>]
  /\ changed' = [changed EXCEPT ![r] = FALSE]
  /\ same' = [same EXCEPT ![r] = FALSE]
  /\ acc' = [acc EXCEPT ![r] = {}]
  /\ last' = IF track[r] /\ pc[r] = "done"
             THEN [done |-> TRUE, ids |-> ids[r], thr |-> thr[r], acc |-> acc[r]]
             ELSE NoLast
  /\ track' = [track EXCEPT ![r] = FALSE]
  /\ UNCHANGED <<phase, controls, mappings, writeFailed, runs>>
  /\ UNCHANGED <<authVars, adapterVars, ctlVars>>

\* ------------------------------------------------------------ api_client.py

\* _decode_jwt_exp: token.split(".")[1], base64, json.loads, .get("exp", 0);
\* any exception gives 0
DecodeJwtExp(tok) ==
  IF tok.parts < 2 THEN 0
  ELSE IF tok.kind # "object" THEN 0
  ELSE IF tok.exp = <<>> THEN 0
  ELSE tok.exp[1]

\* data.get("token") or data.get("access_token")
PickToken(data) ==
  IF data.token # <<>> THEN data.token[1]
  ELSE IF data.access_token # <<>> THEN data.access_token[1]
  ELSE NoToken

\* login with the exp of the token tried before expires_in
ExpiryAfterLoginJwtFirst(data, tok, t) ==
  IF DecodeJwtExp(tok) > 0 THEN DecodeJwtExp(tok) - 60
  ELSE IF data.expires_in # <<>> THEN t + data.expires_in[1] - 60
  ELSE t + 3600 - 60

\* login: the three ways to set token_expiry, at time t
ExpiryAfterLogin(data, tok, t) ==
  IF data.expires_in # <<>> THEN t + data.expires_in[1] - 60
  ELSE IF DecodeJwtExp(tok) > 0 THEN DecodeJwtExp(tok) - 60
  ELSE t + 3600 - 60

\* if not self.token or time.time() > self.token_expiry
NeedsLoginLate(tok, t, expiry) == tok = NoToken \/ t > expiry

\* if not self.token or time.time() >= self.token_expiry
NeedsLogin(tok, t, expiry) == tok = NoToken \/ t >= expiry

\* raise_for_status() left out
RaisesForStatusNever(data) == FALSE

\* response.raise_for_status()
RaisesForStatus(data) == data.status # "ok"

\* the test for a missing token left out
NoTokenFoundNever(tok) == FALSE

\* if not self.token
NoTokenFound(tok) == tok = NoToken

AuthIdle == \A c \in Callers : apc[c] = "idle"

\* get_headers is entered: the check, and the login request if it is needed
Begin(c) ==
  /\ AuthIdle
  /\ IF NeedsLogin(token, now, token_expiry)
     THEN /\ need' = [need EXCEPT ![c] = IF token = NoToken THEN "absent" ELSE "stale"]
          /\ logins' = [logins EXCEPT ![c] = @ + 1]
          /\ apc' = [apc EXCEPT ![c] = "posting"]
          /\ UNCHANGED hdr
     ELSE /\ need' = [need EXCEPT ![c] = "no"]
          /\ hdr' = [hdr EXCEPT ![c] = token]
          /\ apc' = [apc EXCEPT ![c] = "returned"]
          /\ UNCHANGED logins
  /\ UNCHANGED <<token, token_expiry, now, ticks, resp>>
  /\ UNCHANGED <<mapVars, adapterVars, ctlVars>>

\* login: the response arrives; get_headers returns the headers or the
\* exception of login leaves it
Login(c) ==
  /\ apc[c] = "posting"
  /\ \E data \in LoginData \cup {HttpError} :
       /\ resp' = [resp EXCEPT ![c] = data]
       /\ IF RaisesForStatus(data)
          THEN \* raise_for_status()
               /\ apc' = [apc EXCEPT ![c] = "raised"]
               /\ UNCHANGED <<token, token_expiry, hdr>>
          ELSE /\ token' = PickToken(data)
               /\ IF NoTokenFound(token')
                  THEN \* ValueError("No token found in login response!")
                       /\ apc' = [apc EXCEPT ![c] = "raised"]
                       /\ UNCHANGED <<token_expiry, hdr>>
                  ELSE /\ token_expiry' = ExpiryAfterLogin(data, token', now)
                       /\ hdr' = [hdr EXCEPT ![c] = token']
                       /\ apc' = [apc EXCEPT ![c] = "returned"]
  /\ UNCHANGED <<now, ticks, need, logins>>
  /\ UNCHANGED <<mapVars, adapterVars, ctlVars>>

\* the caller of get_headers goes on
Finish(c) ==
  /\ apc[c] \in {"returned", "raised"}
  /\ apc' = [apc EXCEPT ![c] = "idle"]
  /\ need' = [need EXCEPT ![c] = "no"]
  /\ logins' = [logins EXCEPT ![c] = 0]
  /\ resp' = [resp EXCEPT ![c] = NoResp]
  /\ hdr' = [hdr EXCEPT ![c] = NoToken]
  /\ UNCHANGED <<token, token_expiry, now, ticks>>
  /\ UNCHANGED <<mapVars, adapterVars, ctlVars>>

\* time.time() advances between two calls
Tick(d) ==
  /\ AuthIdle
  /\ ticks < MaxTicks
  /\ ticks' = ticks + 1
  /\ now' = now + d
  /\ UNCHANGED <<token, token_expiry, apc, need, logins, resp, hdr>>
  /\ UNCHANGED <<mapVars, adapterVars, ctlVars>>

\* get_headers in a thread of its own, line 59: the test, and the login
\* request if it is needed
Check(c) ==
  /\ apc[c] = "idle"
  /\ IF NeedsLogin(token, now, token_expiry)
     THEN /\ need' = [need EXCEPT ![c] = IF token = NoToken THEN "absent" ELSE "stale"]
          /\ logins' = [logins EXCEPT ![c] = @ + 1]
          /\ apc' = [apc EXCEPT ![c] = "posting"]
     ELSE /\ need' = [need EXCEPT ![c] = "no"]
          /\ apc' = [apc EXCEPT ![c] = "building"]
          /\ UNCHANGED logins
  /\ UNCHANGED <<token, token_expiry, now, ticks, resp, hdr>>
  /\ UNCHANGED <<mapVars, adapterVars, ctlVars>>

\* login in a thread of its own, lines 37-55: the response arrives, the token
\* is assigned, and login raises or sets the expiry and returns
Respond(c) ==
  /\ apc[c] = "posting"
  /\ \E data \in LoginData \cup {HttpError} :
       /\ IF RaisesForStatus(data)
          THEN /\ apc' = [apc EXCEPT ![c] = "raised"]
               /\ UNCHANGED <<token, token_expiry>>
          ELSE /\ token' = PickToken(data)
               /\ IF NoTokenFound(token')
                  THEN /\ apc' = [apc EXCEPT ![c] = "raised"]
                       /\ UNCHANGED token_expiry
                  ELSE /\ token_expiry' = ExpiryAfterLogin(data, token', now)
                       /\ apc' = [apc EXCEPT ![c] = "building"]
  /\ UNCHANGED <<now, ticks, need, logins, resp, hdr>>
  /\ UNCHANGED <<mapVars, adapterVars, ctlVars>>

\* get_headers, lines 61-65: self.token is read into the Authorization header
Build(c) ==
  /\ apc[c] = "building"
  /\ hdr' = [hdr EXCEPT ![c] = token]
  /\ apc' = [apc EXCEPT ![c] = "returned"]
  /\ UNCHANGED <<token, token_expiry, now, ticks, need, logins, resp>>
  /\ UNCHANGED <<mapVars, adapterVars, ctlVars>>

InitMap ==
  /\ phase = "ingest"
  /\ controls = [k \in ControlIds |-> NoRow]
  /\ mappings = EmptyBag
  /\ pc = [r \in Tasks |-> "idle"]
  /\ ids = [r \in Tasks |-> <<>>]
  /\ thr = [r \in Tasks |-> 80]
  /\ i = [r \in Tasks |-> 0]
  /\ j = [r \in Tasks |-> 0]
  /\ remaining = [r \in Tasks |-> 0]
  /\ cur = [r \in Tasks |-> NoCand]
  /\ outcome = [r \in Tasks |-> "none"]
  /\ calls = [r \in Tasks |-> <<>>]
  /\ invoked = [r \in Tasks |-> <<>>]
  /\ changed = [r \in Tasks |-> FALSE]
  /\ same = [r \in Tasks |-> FALSE]
  /\ acc = [r \in Tasks |-> {}]
  /\ track = [r \in Tasks |-> FALSE]
  /\ last = NoLast
  /\ writeFailed = FALSE
  /\ runs = 0

\* APIClient.__init__
InitAuth ==
  /\ token = NoToken
  /\ token_expiry = 0
  /\ now = 1000
  /\ ticks = 0
  /\ apc = [c \in Callers |-> "idle"]
  /\ need = [c \in Callers |-> "no"]
  /\ logins = [c \in Callers |-> 0]
  /\ resp = [c \in Callers |-> NoResp]
  /\ hdr = [c \in Callers |-> NoToken]

InitAdapter ==
  /\ adapter = "idle"
  /\ llm_answer = <<>>
  /\ db_mappings = <<>>

InitControls ==
  /\ control_text = [k \in ControlIds |-> NoTextRow]
  /\ last_insert = NoInsert

Init == InitMap /\ InitAuth /\ InitAdapter /\ InitControls

Next ==
  \/ \E k \in ControlIds, p \in Products : InsertControl(k, p)
  \/ EndIngest
  \/ \E list \in ProductLists, t \in Thresholds : StartRun(MainTask, list, t, FALSE)
  \/ \E r \in Tasks : Fetch(r)
  \/ \E r \in Tasks : Backend(r)
  \/ \E r \in Tasks : Forward(r)
  \/ \E r \in Tasks : Reverse(r)
  \/ \E r \in Tasks : Return(r)

\* mapping runs one after another
Spec == Init /\ [][Next]_vars

NextRerun ==
  \/ \E k \in ControlIds, p \in Products : InsertControl(k, p)
  \/ EndIngest
  \/ \E list \in ProductLists, t \in Thresholds, rec \in BOOLEAN :
       StartRun(MainTask, list, t, rec)
  \/ \E r \in Tasks : Fetch(r)
  \/ \E r \in Tasks : Backend(r)
  \/ \E r \in Tasks : Forward(r)
  \/ \E r \in Tasks : Reverse(r)
  \/ \E r \in Tasks : Return(r)

\* mapping runs one after another, a run may be recorded and then run again
SpecRerun == Init /\ [][NextRerun]_vars

NextAuth ==
  \/ \E c \in Callers : Begin(c)
  \/ \E c \in Callers : Login(c)
  \/ \E c \in Callers : Finish(c)
  \/ \E d \in TickSteps : Tick(d)

\* the calls of get_headers, one after another
SpecAuth == Init /\ [][NextAuth]_vars

NextRemap ==
  \/ \E k \in ControlIds, p \in Products : InsertControl(k, p)
  \/ EndIngest
  \/ \E r \in Tasks, p \in Products : Remap(r, p)
  \/ \E r \in Tasks : Fetch(r)
  \/ \E r \in Tasks : Backend(r)
  \/ \E r \in Tasks : Forward(r)
  \/ \E r \in Tasks : Reverse(r)
  \/ \E r \in Tasks : Return(r)

\* remap requests, handled as coroutines that interleave at their awaits
SpecRemap == Init /\ [][NextRemap]_vars

NextThreads ==
  \/ \E c \in Callers : Check(c)
  \/ \E c \in Callers : Respond(c)
  \/ \E c \in Callers : Build(c)
  \/ \E c \in Callers : Finish(c)
  \/ \E d \in TickSteps : Tick(d)

\* the callers of get_headers are threads that share one client
SpecThreads == Init /\ [][NextThreads]_vars

NextControls ==
  \E k \in ControlIds, p \in Products, text \in Texts, md \in Metadatas :
    InsertControlCall(k, p, text, md)

\* insert_control called with any arguments, any number of times
SpecControls == Init /\ [][NextControls]_vars

NextAdapter ==
  \/ \E ans \in Answers : Receive(ans)
  \/ Parse
  \/ Forget

\* the adapter applied to well-formed lists
SpecAdapter == Init /\ [][NextAdapter]_vars

\* ------------------------------------------------------------- properties

\* a step of the insert loop taken by task r (Forward or Reverse)
InsertStep(r) ==
  /\ pc[r] \in {"insert", "reverse"}
  /\ <<pc[r], remaining[r]>> # <<pc'[r], remaining'[r]>>

\* the operation of map_two_products by task r has just been entered
FetchStep(r) == pc[r] = "fetch" /\ Len(invoked'[r]) = Len(invoked[r]) + 1

\* the rows are symmetric: each has its mirror with the same confidence
Symmetric(rows) ==
  \A x \in BagToSet(rows) : \E y \in BagToSet(rows) : y.s = x.t /\ y.t = x.s /\ y.c = x.c

\* at most one row per ordered pair
Unique(rows) ==
  \A x \in BagToSet(rows) :
    /\ CopiesIn(x, rows) = 1
    /\ \A y \in BagToSet(rows) : (y.s = x.s /\ y.t = x.t) => y = x

\* index pairs a < b of a list of n entries
IndexPairs(n) == {p \in (1..n) \X (1..n) : p[1] < p[2]}

\* the backend calls a completed run owes: the invoked index pairs whose two
\* products both have controls, in order, as pairs of product identities
OwedCalls(r) ==
  LET sel == SelectSeq(invoked[r],
                       LAMBDA p : /\ GetControls(controls, ids[r][p[1]]) # {}
                                  /\ GetControls(controls, ids[r][p[2]]) # {})
  IN [k \in 1..Len(sel) |-> <<ids[r][sel[k][1]], ids[r][sel[k][2]]>>]

\* no unordered pair twice, no product with itself
NoRepeatedPair(cs) ==
  /\ \A k \in 1..Len(cs) : cs[k][1] # cs[k][2]
  /\ \A k, l \in 1..Len(cs) : k # l => {cs[k][1], cs[k][2]} # {cs[l][1], cs[l][2]}

\* C1: in every iteration of the insert loop the candidate is rejected exactly
\* when its confidence is below the threshold of the run (a confidence equal to
\* the threshold is accepted); a rejected candidate leaves the mapping set as
\* it was, and an accepted candidate whose write goes through has its row.
C1_ThresholdGate ==
  [][\A r \in Tasks :
       (pc[r] = "insert" /\ InsertStep(r)) =>
         /\ (outcome'[r] = "rejected") <=> (cur'[r].c < thr[r])
         /\ (outcome'[r] \in {"forward", "uuid_error", "write_error"}) <=> (cur'[r].c >= thr[r])
         /\ outcome'[r] = "rejected" => mappings' = mappings
         /\ outcome'[r] = "forward" =>
              \E x \in BagToSet(mappings') : x.s = cur'[r].s /\ x.t = cur'[r].t]_vars

\* a candidate exactly at the threshold has been written in both directions
C1_Witness ==
  \E r \in Tasks :
    /\ outcome[r] = "stored"
    /\ cur[r].c = thr[r]
    /\ Row(cur[r].s, cur[r].t, cur[r].c) \in BagToSet(mappings)

\* C2: as long as no storage write has failed, and outside the moment between
\* the forward and the reverse write of one candidate, every row (s, t, c) has
\* its mirror row (t, s, c) with the same confidence.
C2_Symmetry ==
  (~writeFailed /\ \A r \in Tasks : pc[r] # "reverse") => Symmetric(mappings)

\* a run has ended without any failed write and left a row and its mirror
C2_Witness ==
  /\ ~writeFailed
  /\ pc[MainTask] = "done"
  /\ \E x \in BagToSet(mappings) : x.s = "k1" /\ x.t = "k2"
  /\ \E x \in BagToSet(mappings) : x.s = "k2" /\ x.t = "k1"

\* C3: there is never more than one row per ordered (source, target) pair; an
\* insert adds one row or nothing and never fails because the pair is there;
\* and a run over the same list with the same threshold that accepts only
\* candidates the recorded run accepted has, when no write has failed, added
\* no row.
C3_Idempotence ==
  /\ [](Unique(mappings))
  /\ [](\A r \in Tasks : (pc[r] = "done" /\ same[r] /\ ~writeFailed) => ~changed[r])
  /\ [][\A r \in Tasks :
          InsertStep(r) =>
            /\ mappings' = mappings \/ BagCardinality(mappings') = BagCardinality(mappings) + 1
            /\ (outcome'[r] \in {"forward", "stored"}
                /\ HasRow(mappings, IF pc[r] = "insert" THEN cur'[r].s ELSE cur[r].t,
                                    IF pc[r] = "insert" THEN cur'[r].t ELSE cur[r].s))
               => mappings' = mappings]_vars

\* a re-run has ended after a candidate of the recorded run was written again,
\* and the rows are what they were
C3_Witness ==
  \E r \in Tasks :
    /\ pc[r] = "done"
    /\ same[r]
    /\ ~writeFailed
    /\ ~changed[r]
    /\ outcome[r] = "stored"
    /\ cur[r] \in last.acc
    /\ BagCardinality(mappings) = 2

\* C4: when map_two_products is entered for a pair in which a product has no
\* controls, the step issues no backend call, writes no row and returns to the
\* loop (or the read fails): the backend and the insert loop are not reached.
C4_EmptyShortCircuit ==
  [][\A r \in Tasks :
       (/\ FetchStep(r)
        /\ \/ GetControls(controls, ids[r][i[r]]) = {}
           \/ GetControls(controls, ids[r][j[r]]) = {})
       => /\ calls'[r] = calls[r]
          /\ mappings' = mappings
          /\ pc'[r] \in {"fetch", "done", "raised"}]_vars

\* a run over products of which one has no controls has ended without a call
C4_Witness ==
  \E r \in Tasks :
    /\ pc[r] = "done"
    /\ outcome[r] = "skipped"
    /\ Len(invoked[r]) >= 1
    /\ calls[r] = <<>>
    /\ \E k \in 1..Len(ids[r]) : GetControls(controls, ids[r][k]) # {}

\* C5 as stated: a completed run over n identities has issued exactly
\* n(n-1)/2 backend calls, no unordered pair twice, no product with itself.
C5_Original ==
  \A r \in Tasks :
    pc[r] = "done" =>
      /\ 2 * Len(calls[r]) = Len(ids[r]) * (Len(ids[r]) - 1)
      /\ NoRepeatedPair(calls[r])

\* C5: a completed run over n identities has entered map_two_products once for
\* each pair of list positions a < b, n(n-1)/2 times; the backend was called
\* for exactly those of them whose two products both have controls; and when
\* the identities of the list are distinct no unordered pair was called twice
\* and no product with itself.
C5_PairwiseCoverage ==
  \A r \in Tasks :
    pc[r] = "done" =>
      /\ 2 * Len(invoked[r]) = Len(ids[r]) * (Len(ids[r]) - 1)
      /\ {invoked[r][k] : k \in 1..Len(invoked[r])} = IndexPairs(Len(ids[r]))
      /\ calls[r] = OwedCalls(r)
      /\ (\A a, b \in 1..Len(ids[r]) : a # b => ids[r][a] # ids[r][b])
           => NoRepeatedPair(calls[r])

\* a run over three distinct products, one without controls, has ended: three
\* pairs entered, one backend call
C5_Witness ==
  \E r \in Tasks :
    /\ pc[r] = "done"
    /\ Len(ids[r]) = 3
    /\ Len(invoked[r]) = 3
    /\ Len(calls[r]) = 1

\* C6: a get_headers call entered with no token, or at or after the stored
\* expiry, sends one login request and does not return before the answer; a
\* call entered with a token before the expiry sends none and returns that
\* token; a call never sends a second request; and token and expiry change
\* only in the login of a call that is waiting for its answer.
C6_TokenRefresh ==
  [][/\ \A c \in Callers :
          /\ (apc[c] = "idle" /\ apc'[c] # "idle") =>
               /\ (token = NoToken \/ now >= token_expiry) =>
                    (apc'[c] = "posting" /\ logins'[c] = 1)
               /\ (token # NoToken /\ now < token_expiry) =>
                    (apc'[c] = "returned" /\ logins'[c] = 0 /\ hdr'[c] = token)
          /\ apc[c] = "posting" => logins'[c] \in {0, 1}
          /\ apc'[c] = "returned" => (hdr'[c] = token' /\ token' # NoToken)
     /\ <<token, token_expiry>> # <<token', token_expiry'>> =>
          \E c \in Callers : apc[c] = "posting" /\ logins[c] = 1]_vars

\* a call entered exactly at the stored expiry of a cached token has logged in
\* once and returned
C6_Witness ==
  \E c \in Callers :
    /\ apc[c] = "returned"
    /\ need[c] = "stale"
    /\ logins[c] = 1
    /\ ticks >= 1

\* C7 as stated: every row has a confidence in [0.0, 1.0].
C7_ConfidenceRange == \A x \in BagToSet(mappings) : 0 <= x.c /\ x.c <= 100

\* C8 as stated: no failure aborts the run, and a run ends only after every
\* pair of the enumeration has been processed.
C8_Original ==
  \A r \in Tasks :
    /\ pc[r] # "raised"
    /\ pc[r] = "done" => 2 * Len(invoked[r]) = Len(ids[r]) * (Len(ids[r]) - 1)

\* C8: when the matching backend fails for a pair (the call fails or the answer
\* does not parse), the pair writes no row and the run goes on: to the next
\* pair, or to its end exactly when the pair was the last one.  A run is
\* aborted only by a failed read of the controls.
C8_BackendResilience ==
  [][\A r \in Tasks :
       /\ (pc[r] = "llm" /\ pc'[r] # "llm" /\ outcome'[r] = "no_answer") =>
            /\ mappings' = mappings
            /\ pc'[r] \in {"fetch", "done"}
            /\ pc'[r] = "done" <=> (i[r] = Len(ids[r]) - 1 /\ j[r] = Len(ids[r]))
            /\ pc'[r] = "fetch" => (<<i'[r], j'[r]>> \in IndexPairs(Len(ids[r]))
                                    /\ <<i'[r], j'[r]>> # <<i[r], j[r]>>)
       /\ (pc[r] # "raised" /\ pc'[r] = "raised") =>
            (pc[r] = "fetch" /\ outcome'[r] = "read_error")]_vars

\* the backend has failed for a pair and the run stands at the next pair
C8_Witness ==
  \E r \in Tasks :
    /\ outcome[r] = "no_answer"
    /\ pc[r] = "fetch"
    /\ Len(invoked[r]) >= 1

\* a mapping write of task r fails in this step
WriteFails(r) == InsertStep(r) /\ outcome'[r] = "write_error"

\* C9 as stated: a failed mapping write leaves the orchestrator as an
\* exception.
C9_Original == [][\A r \in Tasks : WriteFails(r) => pc'[r] = "raised"]_vars

\* C9: a failed mapping write (forward or reverse) is caught inside the insert
\* loop: the run is not aborted, the loop goes on with the next candidate or
\* returns to the pair loop, and the rows stay as they were, the forward row
\* of a failed reverse write included.
C9_WriteFailureAbsorbed ==
  [][\A r \in Tasks :
       WriteFails(r) =>
         /\ pc'[r] \in {"insert", "fetch", "done"}
         /\ remaining'[r] = remaining[r] - 1
         /\ mappings' = mappings
         /\ writeFailed']_vars

\* a reverse write has failed, its forward row is there without the mirror,
\* and the run stands at the next pair
C9_Witness ==
  \E r \in Tasks :
    /\ outcome[r] = "write_error"
    /\ pc[r] = "fetch"
    /\ BagCardinality(mappings) = 1

\* the call of caller c has logged in successfully
LoggedIn(c) == apc[c] = "returned" /\ need[c] # "no"

\* C10 as stated: rule (b) applies to three-part tokens whose middle part is
\* an object with a numeric exp.
C10_Original ==
  \A c \in Callers :
    LoggedIn(c) =>
      LET jwt == token.parts = 3 /\ token.kind = "object" /\ token.exp # <<>>
      IN /\ resp[c].expires_in # <<>> => token_expiry = now + resp[c].expires_in[1] - 60
         /\ (resp[c].expires_in = <<>> /\ jwt) => token_expiry = token.exp[1] - 60
         /\ (resp[c].expires_in = <<>> /\ ~jwt) => token_expiry = now + 3600 - 60

\* C10: after a successful login the stored expiry is (a) now + N - 60 when
\* the response has an expires_in of N; (b) otherwise exp - 60 when the token
\* has at least two dot-separated parts, the second decodes to an object and
\* its exp is a number above 0; (c) otherwise now + 3600 - 60.
C10_ExpiryPrecedence ==
  \A c \in Callers :
    LoggedIn(c) =>
      LET jwt == /\ token.parts >= 2
                 /\ token.kind = "object"
                 /\ token.exp # <<>>
                 /\ token.exp[1] > 0
      IN /\ resp[c].expires_in # <<>> => token_expiry = now + resp[c].expires_in[1] - 60
         /\ (resp[c].expires_in = <<>> /\ jwt) => token_expiry = token.exp[1] - 60
         /\ (resp[c].expires_in = <<>> /\ ~jwt) => token_expiry = now + 3600 - 60

\* a login whose response has expires_in and whose token carries a positive
\* exp: rule (a) has set the expiry
C10_Witness ==
  \E c \in Callers :
    /\ LoggedIn(c)
    /\ resp[c].expires_in # <<>>
    /\ token.parts = 3
    /\ token.exp # <<>>
    /\ token.exp[1] > 0
    /\ token_expiry # token.exp[1] - 60

\* C11: a get_headers call whose login response has a token under neither
\* field name ends with the exception of login: it returns no headers, and it
\* has sent exactly one login request.
C11_AuthFailure ==
  \A c \in Callers :
    (/\ apc[c] \in {"returned", "raised"}
     /\ resp[c].status = "ok"
     /\ resp[c].token = <<>>
     /\ resp[c].access_token = <<>>)
    => /\ apc[c] = "raised"
       /\ hdr[c] = NoToken
       /\ logins[c] = 1

\* a call has failed on a response without a token
C11_Witness ==
  \E c \in Callers :
    /\ apc[c] = "raised"
    /\ resp[c].status = "ok"
    /\ PickToken(resp[c]) = NoToken
    /\ logins[c] = 1

\* the positions of the answer whose entry has both identities
Kept(ans) == {k \in 1..Len(ans) : ans[k].source_id # Absent /\ ans[k].target_id # Absent}

\* C12: for a well-formed list in which every confidence of an entry with both
\* identities converts to a number, the adapter returns one entry for each
\* entry of the answer that has both identities, in the order of the answer,
\* with the identities of that entry and its confidence, 0.0 when it has none;
\* an entry that lacks an identity is dropped whatever else it holds.
C12_AdapterContract ==
  (adapter = "returned" /\ \A k \in Kept(llm_answer) : llm_answer[k].floatable) =>
    /\ Len(db_mappings) = Cardinality(Kept(llm_answer))
    /\ \A k \in Kept(llm_answer) :
         LET pos == Cardinality({l \in Kept(llm_answer) : l <= k})
         IN /\ db_mappings[pos].s = llm_answer[k].source_id
            /\ db_mappings[pos].t = llm_answer[k].target_id
            /\ db_mappings[pos].c = IF llm_answer[k].confidence = <<>> THEN 0
                                    ELSE llm_answer[k].confidence[1]

\* an answer of two entries: the first lacks an identity and holds a
\* confidence float() rejects, the second has both identities and no
\* confidence; the adapter has returned the second with confidence 0
C12_Witness ==
  /\ adapter = "returned"
  /\ Len(llm_answer) = 2
  /\ llm_answer[1].source_id = Absent
  /\ ~llm_answer[1].floatable
  /\ llm_answer[2].confidence = <<>>
  /\ db_mappings = <<[s |-> "k1", t |-> "k2", c |-> 0]>>

\* row x has its mirror row
Mirrored(x) == \E y \in BagToSet(mappings) : y.s = x.t /\ y.t = x.s

\* C13 as stated: at no moment does the store hold a forward row without its
\* reverse row.
C13_Original == \A x \in BagToSet(mappings) : Mirrored(x)

\* C13: the two rows of an accepted candidate are two committed writes, the
\* forward one first.  While no write has failed, a row without its mirror is
\* the forward row of the candidate that stands between its two writes, and it
\* carries that candidate's pair; the store holds such a row at that moment,
\* and keeps it when the reverse write fails.
C13_TwoWrites ==
  \A x \in BagToSet(mappings) :
    \/ Mirrored(x)
    \/ writeFailed
    \/ \E r \in Tasks : pc[r] = "reverse" /\ cur[r].s = x.s /\ cur[r].t = x.t

\* between the two writes of a candidate: the forward row is committed, the
\* reverse row is not there, no write has failed
C13_Witness ==
  \E r \in Tasks :
    /\ pc[r] = "reverse"
    /\ ~writeFailed
    /\ HasRow(mappings, cur[r].s, cur[r].t)
    /\ ~HasRow(mappings, cur[r].t, cur[r].s)

\* C14: no step removes a row or changes its confidence; a step adds a row
\* only for an ordered pair that has none, and only as a write of the insert
\* loop with the confidence of the candidate being written: the confidence of
\* a pair is that of the first write that went through for it.
C14_NeverMutated ==
  [][/\ \A x \in BagToSet(mappings) : CopiesIn(x, mappings') = CopiesIn(x, mappings)
     /\ \A y \in BagToSet(mappings') :
          CopiesIn(y, mappings) = 0 =>
            /\ \A x \in BagToSet(mappings) : ~(x.s = y.s /\ x.t = y.t)
            /\ \E r \in Tasks :
                 /\ InsertStep(r)
                 /\ y.c = (IF pc[r] = "insert" THEN cur'[r].c ELSE cur[r].c)]_vars

\* a candidate has gone through both writes with a confidence other than the
\* one stored for its pair: an earlier candidate wrote the pair first
C14_Witness ==
  \E r \in Tasks :
    /\ outcome[r] = "stored"
    /\ \E x \in BagToSet(mappings) : x.s = cur[r].s /\ x.t = cur[r].t /\ x.c # cur[r].c

\* C15 as stated: at most one matching-backend call is in flight, and none
\* while the writes of another pair are going on.
C15_OneInFlight ==
  \A r1, r2 \in Tasks :
    (r1 # r2 /\ pc[r1] = "llm") => pc[r2] \notin {"llm", "insert", "reverse"}

C17_ConcurrentRefresh ==
  \A c \in Callers :
    /\ logins[c] <= 1
    /\ apc[c] = "returned" => hdr[c] \in Tokens

\* C18 as stated, read with the short-circuit of C4: a completed remap of
\* product P has called the backend once for P with each other registered
\* product when both have controls, and for no pair without P.
C18_SingleProductRemap ==
  \A r \in Tasks :
    pc[r] = "done" =>
      LET P == ids[r][1]
      IN /\ \A k \in 1..Len(calls[r]) : P \in {calls[r][k][1], calls[r][k][2]}
         /\ \A q \in 1..Len(RegisteredIds) :
              (/\ RegisteredIds[q] # P
               /\ GetControls(controls, P) # {}
               /\ GetControls(controls, RegisteredIds[q]) # {}) =>
                Cardinality({k \in 1..Len(calls[r]) :
                               {calls[r][k][1], calls[r][k][2]} = {P, RegisteredIds[q]}}) = 1

\* C19: a control identity has one row, with an owner exactly when it has
\* text and metadata; after an insert_control call has returned, the row of
\* its identity holds the text and the metadata of that call (an absent
\* metadata is stored as the empty one), and the call has touched the text and
\* metadata of no other identity.
C19_ControlUpsert ==
  /\ [](\A k \in ControlIds : (controls[k] = NoRow) <=> (control_text[k] = NoTextRow))
  /\ [](last_insert # NoInsert =>
          /\ control_text[last_insert.id].text = last_insert.text
          /\ control_text[last_insert.id].metadata =
               (IF last_insert.metadata = "None" THEN "{}" ELSE last_insert.metadata))
  /\ [][\A k \in ControlIds :
          control_text'[k] # control_text[k] => last_insert'.id = k]_vars

\* the last call has replaced both the text and the metadata of a row that
\* was there
C19_Witness ==
  /\ last_insert # NoInsert
  /\ last_insert.before # NoTextRow
  /\ last_insert.before.text # control_text[last_insert.id].text
  /\ last_insert.before.metadata # control_text[last_insert.id].metadata

\* C20: no step changes the owning product of a control that has a row; after
\* an insert_control call for an identity that had a row, the control is still
\* owned by the product it had, get_controls of that product returns it and
\* get_controls of the product the call named, if it is another one, does not.
C20_OwnerFixed ==
  /\ [][\A k \in ControlIds : controls[k] # NoRow => controls'[k] = controls[k]]_vars
  /\ [](\A k \in ControlIds :
          (last_insert.id = k /\ last_insert.owner_before # NoRow) =>
            /\ controls[k] = last_insert.owner_before
            /\ k \in GetControls(controls, last_insert.owner_before)
            /\ last_insert.product_id # last_insert.owner_before =>
                 k \notin GetControls(controls, last_insert.product_id))

\* the last call named a product other than the owner of the row that was
\* there, and the row is still with its first product
C20_Witness ==
  /\ last_insert # NoInsert
  /\ last_insert.owner_before # NoRow
  /\ last_insert.product_id # last_insert.owner_before
  /\ last_insert.text # last_insert.before.text
  /\ controls[last_insert.id] = last_insert.owner_before

\* C21: when the login of a get_headers call is answered with a non-success
\* status, the step leaves the cached token and the stored expiry as they
\* were, the call ends with the exception and without headers, and it has
\* sent its one login request and sends no other.
C21_FailedLoginKeepsToken ==
  [][\A c \in Callers :
       (apc[c] = "posting" /\ apc'[c] # "posting" /\ resp'[c].status = "error") =>
         /\ token' = token
         /\ token_expiry' = token_expiry
         /\ apc'[c] = "raised"
         /\ hdr'[c] = NoToken
         /\ logins[c] = 1
         /\ logins'[c] = 1]_vars

\* the refresh of a cached, expired token has failed on a non-success status
\* and the token is still cached
C21_Witness ==
  \E c \in Callers :
    /\ apc[c] = "raised"
    /\ resp[c].status = "error"
    /\ need[c] = "stale"
    /\ token \in Tokens
    /\ now >= token_expiry

====
